---- MODULE Spec2Model ----
(***************************************************************************)
(* Model of the form engine of foris (src/fapi.py): the ForisForm /        *)
(* Section / Field object graph, the merged data view with its cache, the  *)
(* requirement predicate, the render-form and adapter caches, validation   *)
(* and the save protocol.                                                  *)
(*                                                                         *)
(* Python values are modelled as strings: "None", "True" and "False" stand *)
(* for None, True and False; every other string is itself.  A dict is a    *)
(* function whose domain is its key set.  An optional object reference     *)
(* (a cache that is None or holds an object) is <<>> or <<object>>.        *)
(***************************************************************************)
EXTENDS Naturals, Sequences, FiniteSets, TLC

VARIABLES
    phase,            \* "assembly" while the tree is built, then "serving"
    children,         \* element name -> sequence of child names (OrderedDict)
    fields,           \* Field objects: name -> attributes set by Field.__init__
    defaults,         \* ForisForm.defaults
    requirement_map,  \* ForisForm.requirement_map
    callbacks,        \* ForisForm.callbacks
    request_data,     \* ForisForm._request_data
    nuci_data,        \* ForisForm._nuci_data
    data_cache,       \* ForisForm.__data_cache
    form_cache,       \* ForisForm.__form_cache
    validated,        \* ForisForm.validated
    nuci_config,      \* ForisForm._nuci_config (the Lazy thunk)
    fetches,          \* how many times client.get has been called
    field_cache,      \* Field.__field_cache, per field name
    store,            \* the remote configuration store client.get reads
    staged,           \* edits queued by add_config_update
    committed,        \* transactions flushed by commit()
    save_log,         \* what the last save() did, in order
    form_data,        \* the data the last save() passed to process_callbacks
    ret               \* the last operation: its name, exception and result

vars == <<phase, children, fields, defaults, requirement_map, callbacks,
          request_data, nuci_data, data_cache, form_cache, validated,
          nuci_config, fetches, field_cache, store, staged, committed,
          save_log, form_data, ret>>

----------------------------------------------------------------------------
(* Python values and dicts *)

None == "None"

EmptyDict == [k \in {} |-> None]

NoObject == <<>>

IsNone(o) == o = <<>>

\* dict.get(k)
Get(d, k) == IF k \in DOMAIN d THEN d[k] ELSE None

\* d.update(e)
Update(d, e) ==
    [k \in DOMAIN d \cup DOMAIN e |-> IF k \in DOMAIN e THEN e[k] ELSE d[k]]

\* d[k] = v
Put(d, k, v) == [x \in DOMAIN d \cup {k} |-> IF x = k THEN v ELSE d[x]]

\* bool(v) of a Python value
Truthy(v) == v \notin {"None", "False", ""}

PyBool(v) == IF Truthy(v) THEN "True" ELSE "False"

SeqToSet(s) == {s[i] : i \in 1..Len(s)}

\* Sequencing: K applied to the value of v, which is evaluated once
Bind(v, K(_)) == CHOOSE out \in {K(x) : x \in {v}} : TRUE

RECURSIVE FilterSeq(_, _)
FilterSeq(s, keep) ==
    IF s = <<>> THEN <<>>
    ELSE IF Head(s) \in keep THEN <<Head(s)>> \o FilterSeq(Tail(s), keep)
         ELSE FilterSeq(Tail(s), keep)

----------------------------------------------------------------------------
(* The element tree *)

Elements == {"form", "main", "sub", "x", "m", "f"}

\* ForisForm._get_all_fields: depth-first walk, a child's subtree before the
\* child itself; only children that are Field instances are collected.
RECURSIVE WalkChildren(_, _, _)
WalkChildren(cs, i, acc) ==
    IF i > Len(cs) THEN acc
    ELSE LET c == cs[i]
             acc1 == IF children[c] # <<>>
                     THEN WalkChildren(children[c], 1, acc) ELSE acc
             acc2 == IF c \in DOMAIN fields THEN Append(acc1, c) ELSE acc1
         IN WalkChildren(cs, i + 1, acc2)

GetAllFields(element) == WalkChildren(children[element], 1, <<>>)

----------------------------------------------------------------------------
(* The state of the form object, passed through its methods.  A method is   *)
(* an operator from this record to [s, exc, val]: the state it leaves, the  *)
(* exception it raised ("" when none) and the value it returned.            *)

Self ==
    [request_data |-> request_data, nuci_data |-> nuci_data,
     data_cache |-> data_cache, form_cache |-> form_cache,
     validated |-> validated, nuci_config |-> nuci_config,
     fetches |-> fetches,
     field_cache |-> field_cache, staged |-> staged,
     committed |-> committed, save_log |-> save_log, form_data |-> form_data]

Result(s, exc, val) == [s |-> s, exc |-> exc, val |-> val]

\* nuci.client.get(filter): the store's content at the time of the call
ClientGet == store

\* utils.Lazy over lambda: client.get(filter): the thunk is evaluated on
\* first access and its result is kept
LazyForce(s) ==
    IF IsNone(s.nuci_config)
    THEN [s EXCEPT !.nuci_config = <<ClientGet>>, !.fetches = @ + 1]
    ELSE s

\* YinElement.find_child(path): the node at path, or None
FindChild(config, path) == Get(config, path)

\* has_requirements with the sentinel compared like any other value
HasRequirements_SentinelCompared(name, data) ==
    \A req_name \in DOMAIN fields[name].requirements :
        Get(data, req_name) = fields[name].requirements[req_name]

\* Field.has_requirements.  Line 396 parses as
\*   (result and True) if req_value is None else (data.get(req_name) == req_value)
HasRequirements(name, data) ==
    \A req_name \in DOMAIN fields[name].requirements :
        LET req_value == fields[name].requirements[req_name]
            result == req_name \in DOMAIN data
        IN IF req_value = None THEN result
           ELSE Get(data, req_name) = req_value

\* _update_nuci_data calling client.get itself for every update
UpdateNuciData_FetchEachTime(s) ==
    LET all == GetAllFields("form")
        bound == {n \in SeqToSet(all) : Truthy(fields[n].nuci_path)}
    IN IF bound = {} THEN s
       ELSE LET found == {n \in bound :
                             FindChild(ClientGet, fields[n].nuci_path) # None}
                fetched == [n \in found |->
                               FindChild(ClientGet, fields[n].nuci_path)]
            IN [s EXCEPT !.nuci_config = <<ClientGet>>,
                         !.fetches = @ + 1,
                         !.nuci_data = Update(s.nuci_data, fetched)]

\* ForisForm._update_nuci_data: the Lazy config is forced by the first field
\* that has a nuci_path; a found node is stored through nuci_preproc, whose
\* default returns the node's value.
UpdateNuciData(s) ==
    LET all == GetAllFields("form")
        bound == {n \in SeqToSet(all) : Truthy(fields[n].nuci_path)}
    IN IF bound = {} THEN s
       ELSE Bind(LazyForce(s), LAMBDA s1 :
            LET config == s1.nuci_config[1]
                found == {n \in bound :
                             FindChild(config, fields[n].nuci_path) # None}
                fetched == [n \in found |->
                               FindChild(config, fields[n].nuci_path)]
            IN [s1 EXCEPT !.nuci_data = Update(s1.nuci_data, fetched)])

\* The coercion without the "0" case
Coerce_PlainBool(name, value) ==
    IF fields[name].type = "Checkbox" THEN PyBool(value) ELSE value

\* The checkbox coercion of clean_data, line 105
Coerce(name, value) ==
    IF fields[name].type = "Checkbox"
    THEN (IF value = "0" THEN "False" ELSE PyBool(value))
    ELSE value

\* clean_data removing the inactive fields from the merged map instead of
\* building the result from the declared fields
CleanData_KeepUnknown(data) ==
    LET all == GetAllFields("form")
        names == SeqToSet(all)
        new_data == [n \in names |-> Coerce(n, data[n])]
        active_field_names == {n \in names : HasRequirements(n, new_data)}
    IN IF \E n \in names : n \notin DOMAIN data
       THEN [exc |-> "KeyError", val |-> EmptyDict]
       ELSE IF names = {}
       THEN [exc |-> "RuntimeError", val |-> EmptyDict]
       ELSE [exc |-> "",
             val |-> [k \in active_field_names \cup (DOMAIN data \ names) |->
                         IF k \in names THEN new_data[k] ELSE data[k]]]

\* ForisForm.clean_data.  data[field.name] raises KeyError for a field with
\* no entry in the merged map.  _get_active_fields(data=new_data) evaluates
\* `data or self.data`: an empty new_data (a form with no field) is falsy, so
\* self.data is read again while its cache is still None, and the recursion
\* ends in RuntimeError (maximum recursion depth exceeded).
CleanData(data) ==
    LET all == GetAllFields("form")
        names == SeqToSet(all)
        new_data == [n \in names |-> Coerce(n, data[n])]
        active_field_names == {n \in names : HasRequirements(n, new_data)}
    IN IF \E n \in names : n \notin DOMAIN data
       THEN [exc |-> "KeyError", val |-> EmptyDict]
       ELSE IF names = {}
       THEN [exc |-> "RuntimeError", val |-> EmptyDict]
       ELSE [exc |-> "",
             val |-> [k \in active_field_names |-> new_data[k]]]

\* The merge with the remote values laid over the request's
MergedData_RemoteOverRequest(s) ==
    Update(Update(defaults, s.request_data), s.nuci_data)

\* The merge of ForisForm.data, lines 86-92
MergedData(s) == Update(Update(defaults, s.nuci_data), s.request_data)

\* ForisForm.data
Data(s) ==
    IF ~IsNone(s.data_cache) THEN Result(s, "", s.data_cache[1])
    ELSE Bind(UpdateNuciData(s), LAMBDA s1 :
         Bind(CleanData(MergedData(s1)), LAMBDA cleaned :
            IF cleaned.exc # "" THEN Result(s1, cleaned.exc, EmptyDict)
            ELSE Result([s1 EXCEPT !.data_cache = <<cleaned.val>>], "",
                        cleaned.val)))

\* invalidate_data clearing the render form instead of the data
InvalidateDataOp_FormCache(s) == [s EXCEPT !.form_cache = NoObject]

\* ForisForm.invalidate_data
InvalidateDataOp(s) == [s EXCEPT !.data_cache = NoObject]

\* ForisForm._get_active_fields() with no data argument: `data or self.data`
\* reads self.data; the result is the sequence of fields whose requirements
\* hold against it.
GetActiveFields(s) ==
    Bind(Data(s), LAMBDA d :
        LET all == GetAllFields("form")
        IN IF d.exc # "" THEN Result(d.s, d.exc, <<>>)
           ELSE Result(d.s, "",
                       FilterSeq(all, {n \in SeqToSet(all) :
                                          HasRequirements(n, d.val)})))

----------------------------------------------------------------------------
(* Validators and the widget library (form.Input, form.Form) *)

\* validators.NotEmpty: the value must be non-empty
ValidatorValid(validator, value) ==
    IF validator = "NotEmpty" THEN Truthy(value) ELSE TRUE

ValidatorMsg(validator) == "This field is required."

\* The note an input takes when validated on value: the message of the first
\* failing validator, empty when all pass
NoteFor(name, value) ==
    LET vs == fields[name].validators
        failing == {i \in 1..Len(vs) : ~ValidatorValid(vs[i], value)}
    IN IF failing = {} THEN ""
       ELSE ValidatorMsg(vs[CHOOSE i \in failing : \A j \in failing : i <= j])

\* Input.validate(data, name): takes the value of name in data and records
\* the note
InputValidate(adapter, name, data) ==
    [adapter EXCEPT !.value = Get(data, name),
                    !.note = NoteFor(name, Get(data, name))]

\* Input.set_value(value)
InputSetValue(adapter, value) == [adapter EXCEPT !.value = value]

\* Field._generate_html_classes
GenerateHtmlClasses(name) ==
    IF name \in DOMAIN requirement_map THEN {"has-requirements"} ELSE {}

\* Field.field: the adapter is built once and cached.  A validated form
\* validates it against the form's data, otherwise it is seeded with
\* data.get(name) or "".  A non-empty note adds the failure class.
FieldOp(s, name) ==
    IF ~IsNone(s.field_cache[name]) THEN Result(s, "", s.field_cache[name][1])
    ELSE Bind(Data(s), LAMBDA d :
         LET fresh == [value |-> None, note |-> "",
                       classes |-> GenerateHtmlClasses(name)]
             bound == IF s.validated
                      THEN InputValidate(fresh, name, d.val)
                      ELSE InputSetValue(fresh,
                               IF Truthy(Get(d.val, name))
                               THEN Get(d.val, name) ELSE "")
             field == IF Truthy(bound.note)
                      THEN [bound EXCEPT !.classes = @ \cup {"field-validation-fail"}]
                      ELSE bound
         IN IF d.exc # "" THEN Result(d.s, d.exc, fresh)
            ELSE Result([d.s EXCEPT !.field_cache[name] = <<field>>], "", field))

\* map(lambda x: x.field, ...): the adapters of names, built in order
RECURSIVE BuildInputs(_, _)
BuildInputs(s, names) ==
    IF names = <<>> THEN Result(s, "", <<>>)
    ELSE Bind(FieldOp(s, Head(names)), LAMBDA f :
            IF f.exc # "" THEN Result(f.s, f.exc, <<>>)
            ELSE BuildInputs(f.s, Tail(names)))

\* Form.fill(source): every input of the form takes its value from source
FormFill(s, inputs, source) ==
    [s EXCEPT !.field_cache =
        [n \in DOMAIN s.field_cache |->
            IF n \in SeqToSet(inputs)
            THEN <<InputSetValue(s.field_cache[n][1], Get(source, n))>>
            ELSE s.field_cache[n]]]

\* Form.validates(source): every input of the form validates itself against
\* source; the form is valid when no input has a note
FormValidates(s, source) ==
    LET inputs == s.form_cache[1].inputs
        cache == [n \in DOMAIN s.field_cache |->
                    IF n \in SeqToSet(inputs)
                    THEN <<InputValidate(s.field_cache[n][1], n, source)>>
                    ELSE s.field_cache[n]]
        out == \A n \in SeqToSet(inputs) : cache[n][1].note = ""
    IN Result([s EXCEPT !.field_cache = cache,
                        !.form_cache = <<[@[1] EXCEPT !.valid = out]>>],
              "", out)

\* ForisForm._form: the render form is built once, from the adapters of the
\* fields active at that time, filled with the data, and cached
FormOp(s) ==
    IF ~IsNone(s.form_cache) THEN Result(s, "", s.form_cache[1])
    ELSE Bind(GetActiveFields(s), LAMBDA active :
         LET form == [inputs |-> active.val, valid |-> TRUE, note |-> None]
         IN IF active.exc # "" THEN Result(active.s, active.exc, form)
            ELSE Bind(BuildInputs(active.s, active.val), LAMBDA built :
                 IF built.exc # "" THEN Result(built.s, built.exc, form)
                 ELSE Bind(Data(built.s), LAMBDA d :
                      IF d.exc # "" THEN Result(d.s, d.exc, form)
                      ELSE Result([FormFill(d.s, active.val, d.val)
                                      EXCEPT !.form_cache = <<form>>],
                                  "", form))))

\* ForisForm.valid
ValidOp(s) ==
    Bind(FormOp(s), LAMBDA f : Result(f.s, f.exc, f.val.valid))

\* ForisForm.errors
ErrorsOp(s) ==
    Bind(FormOp(s), LAMBDA f : Result(f.s, f.exc, f.val.note))

\* ForisForm.validate
ValidateOp(s) ==
    Bind(FormOp([s EXCEPT !.validated = TRUE]), LAMBDA f :
        IF f.exc # "" THEN Result(f.s, f.exc, FALSE)
        ELSE Bind(Data(f.s), LAMBDA d :
                IF d.exc # "" THEN Result(d.s, d.exc, FALSE)
                ELSE FormValidates(d.s, d.val)))

\* Section.render: the children that pass has_requirements against the
\* form's data are rendered in order.  A child that is a Section has no
\* has_requirements attribute: AttributeError.
RECURSIVE SectionRender(_, _, _, _)
SectionRender(s, cs, i, rendered) ==
    IF i > Len(cs) THEN Result(s, "", rendered)
    ELSE IF cs[i] \notin DOMAIN fields
    THEN Result(s, "AttributeError", rendered)
    ELSE Bind(Data(s), LAMBDA d :
         IF d.exc # "" THEN Result(d.s, d.exc, rendered)
         ELSE IF ~HasRequirements(cs[i], d.val)
         THEN SectionRender(d.s, cs, i + 1, rendered)
         ELSE Bind(FieldOp(d.s, cs[i]), LAMBDA f :
              IF f.exc # "" THEN Result(f.s, f.exc, rendered)
              ELSE SectionRender(f.s, cs, i + 1, Append(rendered, cs[i]))))

\* c.render() for the children of the form, in order
RECURSIVE RenderChildren(_, _, _, _)
RenderChildren(s, cs, i, rendered) ==
    IF i > Len(cs) THEN Result(s, "", rendered)
    ELSE Bind(IF cs[i] \in DOMAIN fields
              THEN Bind(FieldOp(s, cs[i]), LAMBDA f :
                        Result(f.s, f.exc, <<cs[i]>>))
              ELSE SectionRender(s, children[cs[i]], 1, <<>>),
              LAMBDA r :
                IF r.exc # "" THEN Result(r.s, r.exc, rendered \o r.val)
                ELSE RenderChildren(r.s, cs, i + 1, rendered \o r.val))

\* render() dropping the merged data before it reads it
RenderOp_Recompute(s) ==
    Bind(ErrorsOp(InvalidateDataOp(s)), LAMBDA e :
        IF e.exc # "" THEN Result(e.s, e.exc, <<>>)
        ELSE RenderChildren(e.s, children["form"], 1, <<>>))

\* ForisForm.render: the errors block, then the children.  The value is the
\* sequence of the fields rendered.
RenderOp(s) ==
    Bind(ErrorsOp(s), LAMBDA e :
        IF e.exc # "" THEN Result(e.s, e.exc, <<>>)
        ELSE RenderChildren(e.s, children["form"], 1, <<>>))

----------------------------------------------------------------------------
(* The save protocol *)

\* nuci.configurator.add_config_update(payload)
AddConfigUpdate(s, payload) ==
    [s EXCEPT !.staged = Append(@, payload),
              !.save_log = Append(@, <<"stage", payload>>)]

\* nuci.configurator.commit(): the staged edits go out as one transaction
CommitOp(s) ==
    [s EXCEPT !.committed = Append(@, s.staged),
              !.staged = <<>>,
              !.save_log = Append(@, <<"commit", 0>>)]

\* The tuple the i-th callback returns: its tag, and for edit_config a
\* payload, which is named by the callback's position
CallbackResult(i) ==
    IF callbacks[i] = "edit_config" THEN <<"edit_config", i>>
    ELSE <<callbacks[i]>>

\* process_callbacks committing after every edit it stages
RECURSIVE ProcessCallbacks_CommitEach(_, _)
ProcessCallbacks_CommitEach(s, i) ==
    IF i > Len(callbacks) THEN Result(s, "", i)
    ELSE Bind([s EXCEPT !.save_log = Append(@, <<"call", i>>)], LAMBDA called :
         IF callbacks[i] = "none" THEN ProcessCallbacks_CommitEach(called, i + 1)
         ELSE IF callbacks[i] = "edit_config"
         THEN Bind(CommitOp(AddConfigUpdate(called, i)), LAMBDA queued :
                   ProcessCallbacks_CommitEach(queued, i + 1))
         ELSE Result(called, "NotImplementedError", i))

\* process_callbacks passing over a tag it does not know
RECURSIVE ProcessCallbacks_IgnoreUnknown(_, _)
ProcessCallbacks_IgnoreUnknown(s, i) ==
    IF i > Len(callbacks) THEN Result(s, "", i)
    ELSE Bind([s EXCEPT !.save_log = Append(@, <<"call", i>>)], LAMBDA called :
         IF callbacks[i] = "edit_config"
         THEN Bind(AddConfigUpdate(called, i), LAMBDA queued :
                   ProcessCallbacks_IgnoreUnknown(queued, i + 1))
         ELSE ProcessCallbacks_IgnoreUnknown(called, i + 1))

\* process_callbacks dropping the staged edits when it meets a tag it does
\* not know
RECURSIVE ProcessCallbacks_Rollback(_, _)
ProcessCallbacks_Rollback(s, i) ==
    IF i > Len(callbacks) THEN Result(s, "", i)
    ELSE Bind([s EXCEPT !.save_log = Append(@, <<"call", i>>)], LAMBDA called :
         IF callbacks[i] = "none" THEN ProcessCallbacks_Rollback(called, i + 1)
         ELSE IF callbacks[i] = "edit_config"
         THEN Bind(AddConfigUpdate(called, i), LAMBDA queued :
                   ProcessCallbacks_Rollback(queued, i + 1))
         ELSE Result([called EXCEPT !.staged = <<>>], "NotImplementedError", i))

\* ForisForm.process_callbacks
RECURSIVE ProcessCallbacks(_, _)
ProcessCallbacks(s, i) ==
    IF i > Len(callbacks) THEN Result(s, "", i)
    ELSE Bind([s EXCEPT !.save_log = Append(@, <<"call", i>>)], LAMBDA called :
         LET cb_result == CallbackResult(i)
             operation == cb_result[1]
         IN IF operation = "none" THEN ProcessCallbacks(called, i + 1)
            ELSE IF operation = "edit_config"
            THEN Bind(AddConfigUpdate(called, cb_result[2]), LAMBDA queued :
                      ProcessCallbacks(queued, i + 1))
            ELSE Result(called, "NotImplementedError", i))

\* ForisForm.save: self.data is the argument of process_callbacks, which
\* hands it to every callback it calls
SaveOp(s) ==
    Bind(Data([s EXCEPT !.save_log = <<>>, !.form_data = NoObject]), LAMBDA d :
        IF d.exc # "" THEN Result(d.s, d.exc, 0)
        ELSE Bind(ProcessCallbacks([d.s EXCEPT !.form_data = <<d.val>>], 1),
                  LAMBDA p :
                    IF p.exc # "" THEN p
                    ELSE Result(CommitOp(p.s), "", 0)))

----------------------------------------------------------------------------
(* Operations.  Every action is one call on the form; ret names the call    *)
(* and what came of it.                                                     *)

PyStr(b) == IF b THEN "True" ELSE "False"

ReturnedOf(op, arg, exc, val) == [op |-> op, arg |-> arg, exc |-> exc, val |-> val]

Returned(op, exc, val) == ReturnedOf(op, "", exc, val)

\* The object state after a method
Becomes(s) ==
    /\ request_data' = s.request_data
    /\ nuci_data' = s.nuci_data
    /\ data_cache' = s.data_cache
    /\ form_cache' = s.form_cache
    /\ validated' = s.validated
    /\ nuci_config' = s.nuci_config
    /\ fetches' = s.fetches
    /\ field_cache' = s.field_cache
    /\ staged' = s.staged
    /\ committed' = s.committed
    /\ save_log' = s.save_log
    /\ form_data' = s.form_data

Object == <<request_data, nuci_data, data_cache, form_cache, validated,
            nuci_config, fetches, field_cache, staged, committed, save_log,
            form_data>>

Tree == <<children, fields, defaults, requirement_map, callbacks>>

Attached(section) ==
    \E e \in Elements : section \in SeqToSet(children[e])

\* ForisForm.add_section(name, title)
AddSection(name) ==
    /\ phase = "assembly"
    /\ ~Attached(name)
    /\ name \notin DOMAIN fields
    /\ children' = [children EXCEPT !["form"] = Append(@, name)]
    /\ ret' = Returned("add_section", "", name)
    /\ UNCHANGED <<phase, fields, defaults, requirement_map, callbacks, store>>
    /\ UNCHANGED Object

\* Section.add_section(name, title) on an attached section
AddSubSection(parent, name) ==
    /\ phase = "assembly"
    /\ Attached(parent)
    /\ parent \notin DOMAIN fields
    /\ ~Attached(name)
    /\ name \notin DOMAIN fields
    /\ children' = [children EXCEPT ![parent] = Append(@, name)]
    /\ ret' = Returned("add_section", "", name)
    /\ UNCHANGED <<phase, fields, defaults, requirement_map, callbacks, store>>
    /\ UNCHANGED Object

\* Field.__init__, lines 282-290: a required field gets NotEmpty appended
FieldValidators(d) ==
    IF d.required THEN Append(d.validators, "NotEmpty") ELSE d.validators

\* The instances of validators.Validator; any other value given as a
\* validator is not one
ValidatorInstances == {"NotEmpty"}

\* Field.__init__, line 285, on the validators argument as a list (a single
\* validator is wrapped in one at line 283)
AllValidators(validators) ==
    \A i \in 1..Len(validators) : validators[i] \in ValidatorInstances

\* add_field registering the default before the validators are checked
AddField_DefaultsFirst(d) ==
    /\ phase = "assembly"
    /\ Attached(d.section)
    /\ d.section \notin DOMAIN fields
    /\ d.name \notin DOMAIN fields
    /\ ~Attached(d.name)
    /\ defaults' = IF d.name \in DOMAIN defaults THEN defaults
                   ELSE Put(defaults, d.name, d.default)
    /\ IF ~AllValidators(d.validators)
       THEN /\ ret' = Returned("add_field", "TypeError", d.name)
            /\ UNCHANGED <<fields, field_cache, children>>
       ELSE /\ fields' = Put(fields, d.name,
                             [type |-> d.type, required |-> d.required,
                              nuci_path |-> d.nuci_path,
                              requirements |-> EmptyDict,
                              validators |-> FieldValidators(d)])
            /\ field_cache' = Put(field_cache, d.name, NoObject)
            /\ children' = [children EXCEPT ![d.section] = Append(@, d.name)]
            /\ ret' = Returned("add_field", "", d.name)
    /\ UNCHANGED <<phase, requirement_map, callbacks, store>>
    /\ UNCHANGED <<request_data, nuci_data, data_cache, form_cache, validated,
                   nuci_config, fetches, staged, committed, save_log,
                   form_data>>

\* Section.add_field(type, name, ...): Field.__init__ and _add.  A validators
\* argument with an element that is no Validator raises TypeError at line
\* 286, before the default is registered (line 301) and before _add.  The
\* form's defaults take the field's default unless the name already has one.
AddField(d) ==
    /\ phase = "assembly"
    /\ Attached(d.section)
    /\ d.section \notin DOMAIN fields
    /\ d.name \notin DOMAIN fields
    /\ ~Attached(d.name)
    /\ IF ~AllValidators(d.validators)
       THEN /\ ret' = Returned("add_field", "TypeError", d.name)
            /\ UNCHANGED <<fields, defaults, field_cache, children>>
       ELSE /\ fields' = Put(fields, d.name,
                             [type |-> d.type, required |-> d.required,
                              nuci_path |-> d.nuci_path,
                              requirements |-> EmptyDict,
                              validators |-> FieldValidators(d)])
            /\ defaults' = IF d.name \in DOMAIN defaults THEN defaults
                           ELSE Put(defaults, d.name, d.default)
            /\ field_cache' = Put(field_cache, d.name, NoObject)
            /\ children' = [children EXCEPT ![d.section] = Append(@, d.name)]
            /\ ret' = Returned("add_field", "", d.name)
    /\ UNCHANGED <<phase, requirement_map, callbacks, store>>
    /\ UNCHANGED <<request_data, nuci_data, data_cache, form_cache, validated,
                   nuci_config, fetches, staged, committed, save_log,
                   form_data>>

\* Field.requires(field, value)
Requires(name, target, value) ==
    /\ phase = "assembly"
    /\ name \in DOMAIN fields
    /\ target \notin DOMAIN fields[name].requirements
    /\ requirement_map' =
          Put(requirement_map, target,
              Append(IF target \in DOMAIN requirement_map
                     THEN requirement_map[target] ELSE <<>>, name))
    /\ fields' = [fields EXCEPT ![name].requirements = Put(@, target, value)]
    /\ ret' = Returned("requires", "", name)
    /\ UNCHANGED <<phase, children, defaults, callbacks, store>>
    /\ UNCHANGED Object

\* ForisForm.add_callback(cb); cb is named by the tag of what it returns
AddCallback(cb) ==
    /\ phase = "assembly"
    /\ callbacks' = Append(callbacks, cb)
    /\ ret' = Returned("add_callback", "", cb)
    /\ UNCHANGED <<phase, children, fields, defaults, requirement_map, store>>
    /\ UNCHANGED Object

\* The tree is complete; requests are served from here on
Serve ==
    /\ phase = "assembly"
    /\ phase' = "serving"
    /\ ret' = Returned("serve", "", "")
    /\ UNCHANGED <<Tree, store>>
    /\ UNCHANGED Object

\* The caller writes an entry of the request data
SetRequest(k, v) ==
    /\ phase = "serving"
    /\ Get(request_data, k) # v \/ k \notin DOMAIN request_data
    /\ request_data' = Put(request_data, k, v)
    /\ ret' = Returned("set_request", "", k)
    /\ UNCHANGED <<phase, Tree, store>>
    /\ UNCHANGED <<nuci_data, data_cache, form_cache, validated, nuci_config,
                   fetches, field_cache, staged, committed, save_log,
                   form_data>>

\* The remote store's content changes
StoreChange(content) ==
    /\ phase = "serving"
    /\ store # content
    /\ store' = content
    /\ ret' = Returned("store_change", "", "")
    /\ UNCHANGED <<phase, Tree>>
    /\ UNCHANGED Object

\* form.data; the result is "cached" when the map returned is the one the
\* cache held, "computed" otherwise
ReadData ==
    /\ phase = "serving"
    /\ \E r \in {Data(Self)} :
          /\ Becomes(r.s)
          /\ ret' = Returned("data", r.exc,
                             IF ~IsNone(data_cache) /\ r.val = data_cache[1]
                             THEN "cached" ELSE "computed")
    /\ UNCHANGED <<phase, Tree, store>>

\* form.invalidate_data()
InvalidateData ==
    /\ phase = "serving"
    /\ Becomes(InvalidateDataOp(Self))
    /\ ret' = Returned("invalidate_data", "", "")
    /\ UNCHANGED <<phase, Tree, store>>

\* form.active_fields
ReadActiveFields ==
    /\ phase = "serving"
    /\ \E r \in {GetActiveFields(Self)} :
          Becomes(r.s) /\ ret' = Returned("active_fields", r.exc, "")
    /\ UNCHANGED <<phase, Tree, store>>

\* form.valid
ReadValid ==
    /\ phase = "serving"
    /\ \E r \in {ValidOp(Self)} :
          Becomes(r.s) /\ ret' = Returned("valid", r.exc, PyStr(r.val))
    /\ UNCHANGED <<phase, Tree, store>>

\* form.errors
ReadErrors ==
    /\ phase = "serving"
    /\ \E r \in {ErrorsOp(Self)} :
          Becomes(r.s) /\ ret' = Returned("errors", r.exc, r.val)
    /\ UNCHANGED <<phase, Tree, store>>

\* form.validate()
Validate ==
    /\ phase = "serving"
    /\ \E r \in {ValidateOp(Self)} :
          Becomes(r.s) /\ ret' = Returned("validate", r.exc, PyStr(r.val))
    /\ UNCHANGED <<phase, Tree, store>>

\* form.render()
Render ==
    /\ phase = "serving"
    /\ \E r \in {RenderOp(Self)} :
          Becomes(r.s) /\ ret' = Returned("render", r.exc, "")
    /\ UNCHANGED <<phase, Tree, store>>

\* field.field, read directly (html_id, label_tag, errors, render of a field)
ReadField(name) ==
    /\ phase = "serving"
    /\ name \in DOMAIN fields
    /\ \E r \in {FieldOp(Self, name)} :
          /\ Becomes(r.s)
          /\ ret' = ReturnedOf("field", name, r.exc,
                               IF IsNone(field_cache[name]) THEN "built"
                               ELSE "cached")
    /\ UNCHANGED <<phase, Tree, store>>

MaxSaves == 2

MaxStaged == 2

MaxCallbacks == 2

\* form.save()
Save ==
    /\ phase = "serving"
    /\ Len(committed) < MaxSaves
    /\ Len(staged) < MaxStaged
    /\ \E r \in {SaveOp(Self)} :
          Becomes(r.s) /\ ret' = Returned("save", r.exc, "")
    /\ UNCHANGED <<phase, Tree, store>>

----------------------------------------------------------------------------
(* The forms explored.  Field x is bound to the remote store; m may depend   *)
(* on x and f on m or x, so that a field can depend on an inactive field.   *)

Text == "Textbox"

Checkbox == "Checkbox"

Decl(name, type, default, required, nuci_path) ==
    [name |-> name, section |-> "main", type |-> type, default |-> default,
     required |-> required, nuci_path |-> nuci_path, validators |-> <<>>]

\* A declaration of f whose validators argument holds a value that is not a
\* Validator, after one that is
BadDecl ==
    [Decl("f", Text, "", TRUE, None) EXCEPT !.validators = <<"NotEmpty", "str">>]

Catalogue ==
    {Decl("x", t, d, FALSE, "px") : t \in {Text, Checkbox}, d \in {None, "b"}}
    \cup {Decl("x", Checkbox, "0", FALSE, "px")}
    \cup {Decl("m", Text, "a", FALSE, None)}
    \cup {Decl("f", Text, "", TRUE, None)}
    \cup {BadDecl}

ReqCatalogue ==
    {<<"m", "x", "a">>, <<"f", "m", "a">>, <<"f", "m", None>>}

RequestValues ==
    [x |-> {"a", "0"}, m |-> {"b"}, f |-> {"a"}]

StoreContents == {EmptyDict, [px |-> "r"]}

Init ==
    /\ phase = "assembly"
    /\ children = [e \in Elements |-> <<>>]
    /\ fields = EmptyDict
    /\ defaults = EmptyDict
    /\ requirement_map = EmptyDict
    /\ callbacks = <<>>
    /\ request_data = EmptyDict
    /\ nuci_data = EmptyDict
    /\ data_cache = NoObject
    /\ form_cache = NoObject
    /\ validated = FALSE
    /\ nuci_config = NoObject
    /\ fetches = 0
    /\ field_cache = EmptyDict
    /\ store \in StoreContents
    /\ staged = <<>>
    /\ committed = <<>>
    /\ save_log = <<>>
    /\ form_data = NoObject
    /\ ret = Returned("init", "", "")

\* Assembly and the reads of the merged data
Next ==
    \/ AddSection("main")
    \/ \E d \in Catalogue : AddField(d)
    \/ \E r \in ReqCatalogue : Requires(r[1], r[2], r[3])
    \/ Serve
    \/ \E k \in DOMAIN RequestValues : \E v \in RequestValues[k] : SetRequest(k, v)
    \/ \E c \in StoreContents : StoreChange(c)
    \/ ReadData
    \/ InvalidateData
    \/ ReadActiveFields

Spec == Init /\ [][Next]_vars

(* The forms explored for the render form and the adapters: m is always     *)
(* active, the required field f depends on m == "a"; a nested section may   *)
(* be attached.                                                             *)

CatalogueForm ==
    {Decl("m", Text, "a", FALSE, None), Decl("f", Text, "", TRUE, None)}

RequestValuesForm ==
    [m |-> {"a", "b"}, f |-> {"a", ""}]

\* Assembly, the reads of the render form and of the adapters, validation
NextForm ==
    \/ AddSection("main")
    \/ AddSubSection("main", "sub")
    \/ \E d \in CatalogueForm : AddField(d)
    \/ Requires("f", "m", "a")
    \/ Serve
    \/ \E k \in DOMAIN RequestValuesForm :
          \E v \in RequestValuesForm[k] : SetRequest(k, v)
    \/ ReadData
    \/ InvalidateData
    \/ ReadValid
    \/ ReadErrors
    \/ Validate
    \/ Render
    \/ \E n \in DOMAIN fields : ReadField(n)

SpecForm == Init /\ [][NextForm]_vars

(* The forms explored for the save protocol: one field, bound to the remote *)
(* store, optional or required, and up to MaxCallbacks callbacks of every   *)
(* kind of result.  The request may hold m, which no field declares.        *)

CatalogueSave ==
    {Decl("x", Text, "b", FALSE, "px"), Decl("x", Text, "", TRUE, "px")}

CallbackKinds == {"none", "edit_config", "explode"}

\* Assembly, callbacks, the reads that need the remote config, and save()
NextSave ==
    \/ AddSection("main")
    \/ \E d \in CatalogueSave : AddField(d)
    \/ \E cb \in CallbackKinds : Len(callbacks) < MaxCallbacks /\ AddCallback(cb)
    \/ Serve
    \/ SetRequest("x", "a")
    \/ SetRequest("m", "b")
    \/ \E c \in StoreContents : StoreChange(c)
    \/ ReadData
    \/ InvalidateData
    \/ Validate
    \/ Render
    \/ Save

SpecSave == Init /\ [][NextSave]_vars

----------------------------------------------------------------------------
(* Properties of the merged data *)

\* The last operation was a read of data that computed it
DataComputed == ret.op = "data" /\ ret.exc = "" /\ ret.val = "computed"

\* The last operation left the merged data in the cache
DataKnown ==
    /\ ret.op \in {"data", "active_fields"}
    /\ ret.exc = ""
    /\ ~IsNone(data_cache)

\* What field name takes from the memoized remote config, None when it has
\* no binding or the config has no node for it
RemoteValue(name) ==
    IF fields[name].nuci_path # None /\ ~IsNone(nuci_config)
    THEN Get(nuci_config[1], fields[name].nuci_path)
    ELSE None

\* The value precedence gives a field: request, else remote, else default
Precedence(name) ==
    IF name \in DOMAIN request_data THEN request_data[name]
    ELSE IF RemoteValue(name) # None THEN RemoteValue(name)
    ELSE defaults[name]

\* The boolean a checkbox takes from a raw value
CheckboxValue(raw) ==
    IF raw = "0" THEN "False"
    ELSE IF raw \in {"", "None", "False"} THEN "False"
    ELSE "True"

\* C1: when data is computed, every field in it holds the request value if
\* the request has one, else the remote value if the remote config has one,
\* else the declared default (a checkbox holds that value as a boolean).
C1_Precedence ==
    DataComputed =>
        \A n \in DOMAIN data_cache[1] :
            data_cache[1][n] =
                IF fields[n].type = Checkbox THEN CheckboxValue(Precedence(n))
                ELSE Precedence(n)

\* A computed read in which request, remote and default are all present and
\* the request value is the one in data
C1_Witness ==
    /\ DataComputed
    /\ "x" \in DOMAIN data_cache[1]
    /\ fields["x"].type = Text
    /\ "x" \in DOMAIN request_data
    /\ RemoteValue("x") = "r"
    /\ defaults["x"] = "b"
    /\ data_cache[1]["x"] = request_data["x"]

\* The names in form.active_fields, read in the current state
ActiveFieldNames == SeqToSet(GetActiveFields(Self).val)

\* C2 as claimed: a field F that requires M == v is in data and in
\* active_fields when data[M] == v, and in neither when data[M] != v or M is
\* not in data.
C2_ValueRequirement ==
    DataKnown =>
        \A F \in DOMAIN fields :
            \A M \in DOMAIN fields[F].requirements :
                LET v == fields[F].requirements[M]
                    d == data_cache[1]
                IN (v # None /\ DOMAIN fields[F].requirements = {M}) =>
                      IF M \in DOMAIN d /\ d[M] = v
                      THEN F \in DOMAIN d /\ F \in ActiveFieldNames
                      ELSE F \notin DOMAIN d /\ F \notin ActiveFieldNames

\* C3: a field F whose requirement is X with the any-value sentinel is in
\* active_fields exactly when X is a key of data, whatever X's value.
C3_AnyValueRequirement ==
    DataKnown =>
        \A F \in DOMAIN fields :
            \A X \in DOMAIN fields[F].requirements :
                (fields[F].requirements[X] = None
                 /\ DOMAIN fields[F].requirements = {X}) =>
                    (F \in ActiveFieldNames <=> X \in DOMAIN data_cache[1])

\* f requires m with any value, m is in data with a value other than its
\* default, and f is active
C3_Witness ==
    /\ DataKnown
    /\ "f" \in DOMAIN fields
    /\ DOMAIN fields["f"].requirements = {"m"}
    /\ fields["f"].requirements["m"] = None
    /\ "m" \in DOMAIN data_cache[1]
    /\ data_cache[1]["m"] = "b"
    /\ "f" \in ActiveFieldNames

\* f requires m with any value, m is declared but inactive, and f is not in
\* active_fields
C3_WitnessAbsent ==
    /\ DataKnown
    /\ "f" \in DOMAIN fields
    /\ "m" \in DOMAIN fields
    /\ DOMAIN fields["f"].requirements = {"m"}
    /\ fields["f"].requirements["m"] = None
    /\ "m" \notin DOMAIN data_cache[1]
    /\ "f" \notin ActiveFieldNames

\* C4 as claimed: the keys of data are the names of active_fields.
C4_DataKeysAreActive ==
    DataKnown => DOMAIN data_cache[1] = ActiveFieldNames

\* C5: a cached data map is kept by every step but invalidate_data(), also
\* when the request data changes, and a read of data returns it;
\* invalidate_data() empties the cache; and a read that finds the cache
\* empty returns a map that holds the current request value of every field
\* in it.
C5_CacheInvalidation ==
    [][/\ (~IsNone(data_cache) /\ ret'.op # "invalidate_data")
              => data_cache' = data_cache
       /\ (~IsNone(data_cache) /\ ret'.op = "data")
              => ret'.exc = "" /\ ret'.val = "cached"
       /\ ret'.op = "invalidate_data" => IsNone(data_cache')
       /\ (IsNone(data_cache) /\ ret'.op = "data" /\ ret'.exc = "")
              => /\ ~IsNone(data_cache')
                 /\ \A k \in DOMAIN data_cache'[1] \cap DOMAIN request_data :
                       data_cache'[1][k] =
                           IF fields[k].type = Checkbox
                           THEN CheckboxValue(request_data[k])
                           ELSE request_data[k]]_vars

\* A read served from the cache although the request value of x has changed
C5_Witness ==
    /\ ret.op = "data"
    /\ ret.val = "cached"
    /\ "x" \in DOMAIN data_cache[1]
    /\ fields["x"].type = Text
    /\ "x" \in DOMAIN request_data
    /\ data_cache[1]["x"] # request_data["x"]

\* The boolean of a checkbox's default, as Field.__init__ line 298 takes it
DefaultChecked(default) ==
    IF default = "0" THEN "False" ELSE PyBool(default)

\* C10: when data is computed, a checkbox field whose merged raw value is "0"
\* holds false, one whose raw value is any other non-empty value holds true,
\* one that neither request nor remote supplies holds the boolean of its
\* default; a field of another type holds its raw value.
C10_CheckboxCoercion ==
    DataComputed =>
        \A n \in DOMAIN data_cache[1] :
            LET raw == Precedence(n)
                v == data_cache[1][n]
            IN IF fields[n].type = Checkbox
               THEN /\ raw = "0" => v = "False"
                    /\ (raw # "0" /\ Truthy(raw)) => v = "True"
                    /\ (n \notin DOMAIN request_data /\ RemoteValue(n) = None)
                          => v = DefaultChecked(defaults[n])
               ELSE v = raw

\* A computed read in which the checkbox x was submitted as "0" over a
\* default that is true, and data holds false
C10_Witness ==
    /\ DataComputed
    /\ "x" \in DOMAIN data_cache[1]
    /\ fields["x"].type = Checkbox
    /\ defaults["x"] = "b"
    /\ Get(request_data, "x") = "0"
    /\ data_cache[1]["x"] = "False"

----------------------------------------------------------------------------
(* Properties of the render form and the adapters *)

FormReads == {"valid", "errors", "validate", "render"}

\* Whether value passes every validator of field name
PassesValidators(name, value) ==
    \A i \in 1..Len(fields[name].validators) :
        ValidatorValid(fields[name].validators[i], value)

\* C6 as claimed: a read of the render form never uses a form older than the
\* current merged data: after valid, errors, validate() or render() the
\* form's inputs are the fields active in the data a read returns now, and
\* each holds the value that data gives it.
C6_FormNeverStale ==
    (ret.op \in FormReads /\ ~IsNone(form_cache)) =>
        LET d == Data(Self)
            inputs == SeqToSet(form_cache[1].inputs)
        IN d.exc = "" =>
              /\ inputs = {n \in DOMAIN fields : HasRequirements(n, d.val)}
              /\ \A n \in inputs : field_cache[n][1].value = Get(d.val, n)

\* C7 as claimed: before validate() an adapter of an active field is seeded
\* with the field's data value (empty string if it has none) and has no
\* note; once validate() has returned, the adapter of every active field has
\* a non-empty note exactly if the field's value fails its validators.
C7_ValidationFlipsBinding ==
    LET d == Data(Self)
    IN /\ ~validated =>
             \A n \in DOMAIN fields :
                 ~IsNone(field_cache[n]) => field_cache[n][1].note = ""
       /\ (ret.op = "field" /\ ret.val = "built" /\ ret.exc = "" /\ ~validated
              /\ ret.arg \in ActiveFieldNames) =>
             field_cache[ret.arg][1].value =
                 IF Get(d.val, ret.arg) = None THEN "" ELSE Get(d.val, ret.arg)
       /\ (ret.op = "validate" /\ ret.exc = "") =>
             \A n \in ActiveFieldNames :
                 (FieldOp(Self, n).val.note # "")
                     <=> ~PassesValidators(n, Get(d.val, n))

----------------------------------------------------------------------------
(* Properties of the save protocol *)

Supported == {"none", "edit_config"}

\* What a save() that runs every callback logs: each call, the staging of
\* each edit_config payload after its call, and one commit at the end
RECURSIVE BatchedLog(_)
BatchedLog(i) ==
    IF i > Len(callbacks) THEN <<<<"commit", 0>>>>
    ELSE <<<<"call", i>>>>
         \o (IF callbacks[i] = "edit_config" THEN <<<<"stage", i>>>> ELSE <<>>)
         \o BatchedLog(i + 1)

CommitCount == Cardinality({i \in 1..Len(save_log) : save_log[i][1] = "commit"})

\* The last save() called every callback in order, staged each edit_config
\* payload after its call, and committed exactly once, after the last
\* callback; the transaction holds all the payloads.
Batched ==
    /\ ret.exc = ""
    /\ save_log = BatchedLog(1)
    /\ CommitCount = 1
    /\ save_log[Len(save_log)][1] = "commit"
    /\ staged = <<>>
    /\ committed[Len(committed)] =
          FilterSeq([i \in 1..Len(callbacks) |-> i],
                    {i \in 1..Len(callbacks) : callbacks[i] = "edit_config"})

\* C8 as claimed: a save() whose callbacks all return ("none",) or
\* ("edit_config", payload) runs all callbacks, stages every payload and
\* then commits exactly once.
C8_SaveBatching ==
    (/\ ret.op = "save"
     /\ \A i \in 1..Len(callbacks) : callbacks[i] \in Supported) => Batched

\* C8 on the forms that declare a field, where save() can read the data
C8_SaveBatchingWithField ==
    (/\ ret.op = "save"
     /\ GetAllFields("form") # <<>>
     /\ \A i \in 1..Len(callbacks) : callbacks[i] \in Supported) => Batched

\* A save() with two edit_config callbacks: both payloads in one transaction
C8_Witness ==
    /\ ret.op = "save"
    /\ callbacks = <<"edit_config", "edit_config">>
    /\ save_log = <<<<"call", 1>>, <<"stage", 1>>, <<"call", 2>>, <<"stage", 2>>,
                    <<"commit", 0>>>>
    /\ committed = <<<<1, 2>>>>

\* C9: a save() on a form with a callback whose tag is neither "none" nor
\* "edit_config" raises, and commit is not called in it; when the form's
\* data can be read the error is the unsupported-operation error.
C9_UnsupportedTag ==
    (/\ ret.op = "save"
     /\ \E i \in 1..Len(callbacks) : callbacks[i] \notin Supported) =>
        /\ ret.exc # ""
        /\ CommitCount = 0
        /\ committed = <<>>
        /\ GetAllFields("form") # <<>> => ret.exc = "NotImplementedError"

\* A save() whose second callback returns an unsupported tag: the first
\* callback's edit is staged, nothing is committed
C9_Witness ==
    /\ ret.op = "save"
    /\ callbacks = <<"edit_config", "explode">>
    /\ ret.exc = "NotImplementedError"
    /\ save_log = <<<<"call", 1>>, <<"stage", 1>>, <<"call", 2>>>>
    /\ committed = <<>>

----------------------------------------------------------------------------
(* Properties of the remote-config fetch *)

\* C11: client.get is called at most once in the life of the form; once the
\* config is fetched no operation fetches again or replaces it; and a read
\* that recomputes data gives a field the request does not supply the value
\* of the memoized config (its default when the config has no node for it),
\* whatever the store holds by then.
C11_FetchOnce ==
    [][/\ fetches' <= 1
       /\ ~IsNone(nuci_config) =>
              nuci_config' = nuci_config /\ fetches' = fetches
       /\ (~IsNone(nuci_config) /\ ret'.op = "data" /\ ret'.exc = ""
              /\ ret'.val = "computed") =>
              \A n \in DOMAIN data_cache'[1] \ DOMAIN request_data :
                  data_cache'[1][n] =
                      IF RemoteValue(n) # None THEN RemoteValue(n)
                      ELSE defaults[n]]_vars

\* A read that recomputed data after invalidate_data() while the store no
\* longer holds the node the memoized config has: data holds the memoized
\* value, and there has been one fetch
C11_Witness ==
    /\ DataComputed
    /\ fetches = 1
    /\ store = EmptyDict
    /\ nuci_config = <<[px |-> "r"]>>
    /\ "x" \notin DOMAIN request_data
    /\ data_cache = <<[x |-> "r"]>>

----------------------------------------------------------------------------
(* Properties of rendering *)

\* C12 as claimed: render() leaves the merged-data cache, the render-form
\* cache, every adapter cache, validated, the request data and the remote
\* data exactly as they were.
C12_RenderReadOnly ==
    [][ret'.op = "render" =>
          UNCHANGED <<data_cache, form_cache, field_cache, validated,
                      request_data, nuci_data>>]_vars

\* C12, amended: render() never changes validated or the request data and
\* never empties or replaces a cache that is filled: a filled merged-data
\* cache stays as it is, and with it the remote data; a filled render-form
\* cache stays as it is, and with it every adapter already built; an adapter
\* already built keeps its note and classes.  render() fills the caches it
\* finds empty.
C12_RenderFillsOnly ==
    [][ret'.op = "render" =>
          /\ validated' = validated
          /\ request_data' = request_data
          /\ ~IsNone(data_cache) =>
                 data_cache' = data_cache /\ nuci_data' = nuci_data
          /\ ~IsNone(form_cache) =>
                 /\ form_cache' = form_cache
                 /\ \A n \in DOMAIN fields :
                        ~IsNone(field_cache[n]) => field_cache'[n] = field_cache[n]
          /\ \A n \in DOMAIN fields :
                 ~IsNone(field_cache[n]) =>
                    /\ ~IsNone(field_cache'[n])
                    /\ field_cache'[n][1].note = field_cache[n][1].note
                    /\ field_cache'[n][1].classes = field_cache[n][1].classes
          /\ (IsNone(data_cache) /\ ret'.exc = "") => ~IsNone(data_cache')
          /\ (IsNone(form_cache) /\ ret'.exc = "") => ~IsNone(form_cache')]_vars

\* A render() that completed on a form whose request data is no longer what
\* the cached data holds: the caches are filled and the cached data is kept
C12_Witness ==
    /\ ret.op = "render"
    /\ ret.exc = ""
    /\ ~IsNone(form_cache)
    /\ "m" \in DOMAIN fields
    /\ ~IsNone(field_cache["m"])
    /\ data_cache = <<[m |-> "a"]>>
    /\ request_data = [m |-> "b"]

----------------------------------------------------------------------------
(* Properties of validation *)

\* C13 as claimed: validate() returns true exactly if the data value of
\* every active field passes all the field's validators, a required field
\* carrying the non-empty validator; an active required text field whose
\* data value is "" makes it return false and leaves a non-empty note on the
\* field's adapter; on a form whose only field is a required text field
\* submitted non-empty it returns true and data holds the submitted value.
C13_ValidateIffAllPass ==
    (ret.op = "validate" /\ ret.exc = "") =>
        LET d == Data(Self).val
        IN /\ ret.val = "True" <=>
                 \A n \in ActiveFieldNames : PassesValidators(n, Get(d, n))
           /\ \A n \in DOMAIN fields :
                 fields[n].required => "NotEmpty" \in SeqToSet(fields[n].validators)
           /\ \A n \in ActiveFieldNames :
                 (fields[n].required /\ fields[n].type = Text /\ Get(d, n) = "") =>
                    /\ ret.val = "False"
                    /\ ~IsNone(field_cache[n])
                    /\ field_cache[n][1].note # ""
           /\ (DOMAIN fields = {"f"} /\ "f" \in DOMAIN request_data
                  /\ request_data["f"] # "" /\ d = [f |-> request_data["f"]]) =>
                    ret.val = "True"

\* C13 on the forms whose render form was built from the data validate()
\* reads: the inputs of the render form are the active fields
C13_ValidateFreshForm ==
    (/\ ret.op = "validate" /\ ret.exc = ""
     /\ SeqToSet(form_cache[1].inputs) = ActiveFieldNames) =>
        LET d == Data(Self).val
        IN /\ ret.val = "True" <=>
                 \A n \in ActiveFieldNames : PassesValidators(n, Get(d, n))
           /\ \A n \in ActiveFieldNames :
                 (fields[n].required /\ fields[n].type = Text /\ Get(d, n) = "") =>
                    /\ ret.val = "False"
                    /\ field_cache[n][1].note # ""

\* C14 as claimed: once validate() has been called, the adapter of every
\* active field that has a non-empty note has the validation-failure class,
\* whether the adapter was built before or after validate().
C14_NoteCarriesFailureClass ==
    (validated /\ ret.exc = "") =>
        \A n \in ActiveFieldNames :
            (~IsNone(field_cache[n]) /\ field_cache[n][1].note # "") =>
                "field-validation-fail" \in field_cache[n][1].classes

\* C14 for the adapters validate() found no adapter for: one built by a
\* validated form takes the failure class with its note
C14_BuiltAfterValidate ==
    (ret.op = "field" /\ ret.val = "built" /\ ret.exc = "" /\ validated) =>
        (field_cache[ret.arg][1].note # ""
            <=> "field-validation-fail" \in field_cache[ret.arg][1].classes)

\* C15 as claimed: render() of a form whose section holds a nested section,
\* and whose data can be read, completes without error.
C15_NestedSectionRenders ==
    (/\ ret.op = "render"
     /\ \E c \in SeqToSet(children["main"]) : c \notin DOMAIN fields
     /\ Data(Self).exc = "") =>
        ret.exc = ""

----------------------------------------------------------------------------
(* Properties of field construction *)

\* C16: an add_field that raises the construction error leaves the form's
\* defaults, the section's children, requirement_map and the fields as they
\* were; add_field raises nothing else; and a field that is attached has
\* only Validator instances as validators, so every add_field given another
\* value has raised.
C16_FailedConstruction ==
    [][ret'.op = "add_field" =>
          /\ ret'.exc \in {"", "TypeError"}
          /\ ret'.exc = "TypeError" =>
                 UNCHANGED <<defaults, children, requirement_map, fields,
                             field_cache>>
          /\ ret'.exc = "" =>
                 /\ ret'.val \in DOMAIN fields'
                 /\ AllValidators(fields'[ret'.val].validators)
          /\ \A n \in DOMAIN defaults' : n \in DOMAIN fields']_vars

\* An add_field of f with a non-Validator has raised on a form that has a
\* requirement registered: f has no default and is no child of the section
C16_Witness ==
    /\ ret = Returned("add_field", "TypeError", "f")
    /\ requirement_map # EmptyDict
    /\ "f" \notin DOMAIN defaults
    /\ "f" \notin SeqToSet(children["main"])
    /\ "f" \notin DOMAIN fields

----------------------------------------------------------------------------
(* Properties of save() in relation to validation and to the request *)

\* The last save() called every registered callback, in order, with the data
\* a read returns, and committed after the last of them
SavedAll ==
    /\ ret.exc = ""
    /\ FilterSeq(save_log, {<<"call", j>> : j \in 1..Len(callbacks)})
          = [j \in 1..Len(callbacks) |-> <<"call", j>>]
    /\ save_log # <<>>
    /\ save_log[Len(save_log)] = <<"commit", 0>>
    /\ form_data = <<Data(Self).val>>

\* C17 as claimed: in every state, validated or not, a save() whose callbacks
\* return supported tags invokes every registered callback with the current
\* data and then commits.
C17_SaveWithoutValidation ==
    (/\ ret.op = "save"
     /\ \A i \in 1..Len(callbacks) : callbacks[i] \in Supported) => SavedAll

\* C17 on the forms that declare a field
C17_SaveWithoutValidationWithField ==
    (/\ ret.op = "save"
     /\ GetAllFields("form") # <<>>
     /\ \A i \in 1..Len(callbacks) : callbacks[i] \in Supported) => SavedAll

\* A save() that ran its callback and committed after validate() returned
\* false
C17_SavedAfterFailedValidation ==
    /\ ret.op = "save"
    /\ ret.exc = ""
    /\ validated
    /\ ~IsNone(form_cache)
    /\ ~form_cache[1].valid
    /\ callbacks = <<"edit_config">>
    /\ committed = <<<<1>>>>

\* The position of the first callback that returns an unsupported tag
FirstUnsupported ==
    CHOOSE k \in 1..Len(callbacks) :
        /\ callbacks[k] \notin Supported
        /\ \A j \in 1..(k - 1) : callbacks[j] \in Supported

\* C18: when a callback has returned an unsupported tag in the last save(),
\* it is the first such callback, k; save() raised the unsupported-operation
\* error; callbacks 1..k were invoked in order and none after k; the
\* edit_config payloads of callbacks 1..k-1 were staged and are still the
\* last entries of the staged edits; and nothing was committed.
C18_PartialSave ==
    (/\ ret.op = "save"
     /\ \E i \in 1..Len(save_log) :
           save_log[i][1] = "call" /\ callbacks[save_log[i][2]] \notin Supported) =>
        LET k == FirstUnsupported
            edits == FilterSeq([j \in 1..(k - 1) |-> j],
                               {j \in 1..(k - 1) : callbacks[j] = "edit_config"})
        IN /\ ret.exc = "NotImplementedError"
           /\ FilterSeq(save_log, {<<"call", j>> : j \in 1..Len(callbacks)})
                 = [j \in 1..k |-> <<"call", j>>]
           /\ FilterSeq(save_log, {<<"stage", j>> : j \in 1..Len(callbacks)})
                 = [j \in 1..Len(edits) |-> <<"stage", edits[j]>>]
           /\ Len(staged) >= Len(edits)
           /\ SubSeq(staged, Len(staged) - Len(edits) + 1, Len(staged)) = edits
           /\ CommitCount = 0

\* Two save() calls that each failed at the second callback: the payload of
\* the first callback is staged twice, neither was rolled back
C18_Witness ==
    /\ ret.op = "save"
    /\ ret.exc = "NotImplementedError"
    /\ callbacks = <<"edit_config", "explode">>
    /\ staged = <<1, 1>>
    /\ committed = <<>>

----------------------------------------------------------------------------
(* Properties of the data map's existence and keys *)

\* C19 as claimed: a read of data returns a map on every form in every
\* state; on a form with no field it returns the empty map.
C19_DataTerminates ==
    ret.op = "data" =>
        /\ ret.exc = ""
        /\ ~IsNone(data_cache)
        /\ GetAllFields("form") = <<>> => data_cache = <<EmptyDict>>

\* C19 on the forms that declare a field: the read returns a map
C19_DataWithField ==
    (ret.op = "data" /\ GetAllFields("form") # <<>>) =>
        /\ ret.exc = ""
        /\ ~IsNone(data_cache)

\* A read of data on a form whose only field is inactive returned the empty
\* map
C19_AllInactive ==
    /\ ret.op = "data"
    /\ ret.exc = ""
    /\ DOMAIN fields = {"f"}
    /\ data_cache = <<EmptyDict>>

\* C20: every key of a data map, the cached one and the one save() passed
\* to the callbacks, is the name of a field declared in the form tree; a
\* request key that names no declared field is in neither.
C20_DataKeysDeclared ==
    LET declared == SeqToSet(GetAllFields("form"))
    IN /\ ~IsNone(data_cache) =>
             /\ DOMAIN data_cache[1] \subseteq declared
             /\ \A k \in DOMAIN request_data \ declared :
                    k \notin DOMAIN data_cache[1]
       /\ ~IsNone(form_data) =>
             /\ DOMAIN form_data[1] \subseteq declared
             /\ \A k \in DOMAIN request_data \ declared :
                    k \notin DOMAIN form_data[1]

\* A save() that called a callback while the request held m, which no field
\* declares: the data passed holds x alone
C20_Witness ==
    /\ ret.op = "save"
    /\ ret.exc = ""
    /\ callbacks # <<>>
    /\ request_data = [m |-> "b", x |-> "a"]
    /\ form_data = <<[x |-> "a"]>>
    /\ data_cache = <<[x |-> "a"]>>

====
